---- MODULE Spec2Model ----
(***************************************************************************)
(* Order API of the multi-region e-commerce repository.                    *)
(*                                                                         *)
(* The two Lambda handlers (src/src/functions/order/create_order.py and    *)
(* get_order.py) run against one orders table and one event bus.  Each     *)
(* create-order invocation is a process with a position (pc): the handler  *)
(* touches state shared with other invocations at exactly two points, the  *)
(* put_item call and the put_events call, and the model splits it there.   *)
(* get-order touches the table once (one query) and is one action.         *)
(***************************************************************************)
EXTENDS Integers, Sequences, FiniteSets, TLC

(***************************************************************************)
(* Bounds of the model.                                                    *)
(***************************************************************************)
\* create-order invocations in one behaviour (also the size of the id space)
MaxInvocations == 2
\* longest items list of a request
MaxItems == 2
\* last reading of the wall clock, in ticks
MaxClock == 1
\* clock ticks per second (the timestamp field is finer than the ttl field)
TicksPerSecond == 1

(***************************************************************************)
(* Program constants.                                                      *)
(***************************************************************************)
\* create_order.py:33   90 * 24 * 60 * 60
NinetyDays == 7776000

\* core_services_stack.py:31   time_to_live_attribute="ttl"
TimeToLiveAttribute == "ttl"

\* Lambda execution environments of the create-order function
Procs == {"p1", "p2"}

\* the identifiers uuid.uuid4() can return (create_order.py:21)
OrderIds == 1 .. MaxInvocations

\* the environment variables the functions read
EnvNames == {"ORDERS_TABLE", "EVENT_BUS_ARN"}

(***************************************************************************)
(* JSON scalars.  k is the Python type the value has after json.loads      *)
(* (with parse_float=Decimal), or "absent" for a key the object lacks.     *)
(* A number is coef * 10^exp, as decimal.Decimal stores it; num tells a    *)
(* text that reads as a number from one that does not.                     *)
(***************************************************************************)
Val(k, num, coef, exp) == [k |-> k, num |-> num, coef |-> coef, exp |-> exp]

Absent == Val("absent", FALSE, 0, 0)
\* a JSON string that is no number, e.g. "abc"
Text == Val("str", FALSE, 0, 0)
\* a JSON integer literal: a Python int
IntLit(n) == Val("int", TRUE, n, 0)
\* a JSON literal with a fraction, e.g. 10.99 = FloatLit(1099, -2)
FloatLit(c, e) == Val("float", TRUE, c, e)

\* json.loads(..., parse_float=Decimal): a literal with a fraction becomes a
\* Decimal holding exactly its digits; every other scalar is unchanged
parse_float(v) == IF v.k = "float" THEN Val("Decimal", TRUE, v.coef, v.exp) ELSE v

\* str(x): an int prints its digits, a Decimal its digits and point, a str
\* is itself
str(v) ==
    IF v.k \in {"int", "Decimal"} THEN Val("str", TRUE, v.coef, v.exp) ELSE v

\* Decimal(s) raises InvalidOperation on a text that is no number
DecimalRaises(s) == ~(s.k = "str" /\ s.num)

Decimal(s) == Val("Decimal", TRUE, s.coef, s.exp)

RECURSIVE Pow10(_)
Pow10(n) == IF n <= 0 THEN 1 ELSE 10 * Pow10(n - 1)

Min(a, b) == IF a <= b THEN a ELSE b

\* Decimal.__mul__: coefficients multiply, exponents add (an int has exponent 0)
DecMul(a, b) == Val("Decimal", TRUE, a.coef * b.coef, a.exp + b.exp)

\* DecAdd that adds the coefficients without aligning the exponents
DecAddUnaligned(a, b) ==
    Val("Decimal", TRUE, a.coef + b.coef, Min(a.exp, b.exp))

\* Decimal.__add__ (and int + Decimal): align to the smaller exponent
DecAdd(a, b) ==
    LET e == Min(a.exp, b.exp)
    IN  Val("Decimal", TRUE,
            a.coef * Pow10(a.exp - e) + b.coef * Pow10(b.exp - e), e)

(***************************************************************************)
(* Requests of create-order.                                               *)
(***************************************************************************)
\* one entry of "items": a JSON object with (or without) price and quantity,
\* or a JSON value that is no object
Item(p, q) == [obj |-> TRUE, price |-> p, quantity |-> q]
NotAnObject == [obj |-> FALSE, price |-> Absent, quantity |-> Absent]

ItemUniverse ==
    { Item(FloatLit(1099, -2), IntLit(2)),      \* 10.99 x 2
      Item(FloatLit(2999, -2), IntLit(1)),      \* 29.99 x 1
      Item(IntLit(5), FloatLit(15, -1)),        \* 5 x 1.5
      Item(Absent, IntLit(1)),                  \* no price
      Item(FloatLit(1099, -2), Absent),         \* no quantity
      Item(Text, IntLit(1)),                    \* price "abc"
      NotAnObject }

ItemLists == UNION { [1 .. n -> ItemUniverse] : n \in 0 .. MaxItems }

\* the "customerId" member of the body: missing, empty or a customer
NoCustomer == "<absent>"
CustomerIdValues == {NoCustomer, "", "c1"}

\* the decoded body: its kind, its customerId and items, and the names of
\* the members it has besides
Body(k, c, i) == [k |-> k, customerId |-> c, items |-> i, extra |-> {}]

\* the members of a stored order that a caller may try to supply
ReservedMembers == {"orderId", "timestamp", "status", "totalAmount", "ttl"}

\* the further members a JSON object can carry: none, the reserved ones,
\* one the handler does not know
ExtraMembers == {{}, ReservedMembers, {"note"}}

\* the body b with the further members x
WithExtra(b, x) == [b EXCEPT !.extra = x]
NoMembers == [k |-> "absent", v |-> << >>]

\* event["body"]: None, a text that is no JSON, or the text of a JSON
\* value; the objects have their items among lists
BodiesOver(lists) ==
    { Body(k, NoCustomer, NoMembers) :
        k \in {"None", "malformed", "null", "array", "string", "number"} }
        \cup { WithExtra(Body("object", c, i), x) :
                 c \in CustomerIdValues,
                 i \in { [k |-> "absent", v |-> << >>], [k |-> "other", v |-> << >>] }
                          \cup { [k |-> "list", v |-> l] : l \in lists },
                 x \in ExtraMembers }

\* the Lambda event: with or without a "body" key
EventsOver(lists) ==
    { [hasBody |-> FALSE, body |-> Body("None", NoCustomer, NoMembers)] }
        \cup { [hasBody |-> TRUE, body |-> b] : b \in BodiesOver(lists) }

\* every request within the bounds
CreateEvents == EventsOver(ItemLists)

\* the requests of the concurrent system: a text that is no JSON, a JSON
\* array, an object without items, and objects whose items are the
\* reference order of the tests (10.99 x 2 + 29.99 x 1), a one-item order
\* and an order with an entry that has no price
SampleLists ==
    { << Item(FloatLit(1099, -2), IntLit(2)), Item(FloatLit(2999, -2), IntLit(1)) >>,
      << Item(FloatLit(2999, -2), IntLit(1)) >>,
      << Item(Absent, IntLit(1)) >> }

SampleEvents ==
    { [hasBody |-> TRUE, body |-> Body("malformed", NoCustomer, NoMembers)],
      [hasBody |-> TRUE, body |-> Body("array", NoCustomer, NoMembers)],
      [hasBody |-> TRUE, body |-> Body("object", "c1", [k |-> "absent", v |-> << >>])] }
        \cup { [hasBody |-> TRUE, body |-> Body("object", "c1", [k |-> "list", v |-> l])] :
                 l \in SampleLists }


\* bool(x) of Python for the values a member can have
Truthy(c) == c # NoCustomer /\ c # ""
TruthyItems(i) == i.k = "other" \/ (i.k = "list" /\ Len(i.v) > 0)

\* json.loads(event["body"], parse_float=Decimal): the exception it raises,
\* or "" when it returns
LoadsRaises(ev) ==
    IF ~ev.hasBody THEN "KeyError"
    ELSE IF ev.body.k = "None" THEN "TypeError"
    ELSE IF ev.body.k = "malformed" THEN "JSONDecodeError"
    ELSE ""

LoadItem(it) ==
    [obj |-> it.obj, price |-> parse_float(it.price),
     quantity |-> parse_float(it.quantity)]

\* the value json.loads returns: every literal with a fraction is a Decimal
json_loads(b) ==
    WithExtra(Body(b.k, b.customerId,
                   [k |-> b.items.k,
                    v |-> [n \in DOMAIN b.items.v |-> LoadItem(b.items.v[n])]]),
              b.extra)

(***************************************************************************)
(* create_order_record: the total.                                         *)
(***************************************************************************)
\* ItemRaises with item.get("quantity", 1): an entry without a quantity
\* counts once
ItemRaisesQuantityDefault(it) ==
    \/ ~it.obj
    \/ it.price.k = "absent"
    \/ DecimalRaises(str(it.price))
    \/ it.quantity.k \notin {"int", "Decimal", "absent"}

\* item["price"], item["quantity"], Decimal(str(...)) and the product raise
\* on an entry that is no object, lacks a key or holds a text
ItemRaises(it) ==
    \/ ~it.obj
    \/ it.price.k = "absent"
    \/ DecimalRaises(str(it.price))
    \/ it.quantity.k \notin {"int", "Decimal"}

\* Decimal(str(item["price"])) * item["quantity"]
ItemAmount(it) == DecMul(Decimal(str(it.price)), it.quantity)

RECURSIVE SumAmounts(_, _)
SumAmounts(items, acc) ==
    IF items = << >> THEN acc
    ELSE SumAmounts(Tail(items), DecAdd(acc, ItemAmount(Head(items))))

\* sum(... for item in order_data["items"]) starts from the int 0
TotalAmount(items) == SumAmounts(items, IntLit(0))

\* iterating a value that is no list, or any entry that raises
TotalRaises(items) ==
    items.k # "list" \/ \E n \in DOMAIN items.v : ItemRaises(items.v[n])

(***************************************************************************)
(* Orders, responses and events.                                           *)
(***************************************************************************)
OrderKeys ==
    {"orderId", "timestamp", "customerId", "items", "totalAmount", "status", "ttl"}

\* OrderItem taking the customer from nowhere
OrderItemNoCustomer(id, ts, c, items, total, ttl) ==
    [orderId |-> id, timestamp |-> ts, customerId |-> NoCustomer, items |-> items,
     totalAmount |-> total, status |-> "PENDING", ttl |-> ttl]

\* the item dict of create_order_record
OrderItem(id, ts, c, items, total, ttl) ==
    [orderId |-> id, timestamp |-> ts, customerId |-> c, items |-> items,
     totalAmount |-> total, status |-> "PENDING", ttl |-> ttl]

\* the item built as {**order_data, ...}: a totalAmount of the caller wins
\* over the computed one
create_item_spread(order_data, order_id, timestamp, ttl) ==
    OrderItem(order_id, timestamp, order_data.customerId, order_data.items.v,
              IF "totalAmount" \in order_data.extra THEN IntLit(0)
              ELSE TotalAmount(order_data.items.v),
              ttl)

\* lines 23-34: the item create_order_record builds from order_data, the
\* identifier, the timestamp and the ttl
create_item(order_data, order_id, timestamp, ttl) ==
    OrderItem(order_id, timestamp, order_data.customerId, order_data.items.v,
              TotalAmount(order_data.items.v), ttl)

\* no order: the value of a local that was never assigned
NoOrder == OrderItem(0, 0, NoCustomer, << >>, Absent, 0)

\* json.dumps(order, default=str): every Decimal is written as its str(),
\* a JSON string; ints and texts are written as they are
default_str(v) == IF v.k = "Decimal" THEN str(v) ELSE v

DumpItem(it) ==
    [obj |-> it.obj, price |-> default_str(it.price),
     quantity |-> default_str(it.quantity)]

json_dumps(o) ==
    [o EXCEPT !.totalAmount = default_str(@),
              !.items = [n \in DOMAIN @ |-> DumpItem(@[n])]]

\* the handlers' return value; body is the decoded JSON text of "body":
\* its keys, the error message (if any) and the dumped order (if any)
Response(code, keys, msg, dump) ==
    [statusCode |-> code, body |-> [keys |-> keys, error |-> msg, order |-> dump]]

ErrorResponse(code, msg) == Response(code, {"error"}, msg, NoOrder)
OrderResponse(o) == Response(200, OrderKeys, "", json_dumps(o))
NoResponse == Response(0, {}, "", NoOrder)

\* the entry publish_order_event passes to put_events
Entry(o, event_type) ==
    [Source |-> "ecommerce.orders", DetailType |-> event_type,
     Detail |-> json_dumps(o)]

(***************************************************************************)
(* State.                                                                  *)
(***************************************************************************)
VARIABLES
    environ,        \* the environment variables that are set
    table,          \* the orders table: a set of items, keyed by (orderId, timestamp)
    bus,            \* the entries the event bus has accepted
    clock,          \* the latest reading of the wall clock, in ticks
    issued,         \* how many identifiers uuid4 has returned
    invocations,    \* create-order invocations started so far
    pc,             \* position of each create-order invocation
    req,            \* the event the invocation was started with
    order,          \* the local "order" of handler (create_order.py:72)
    resp,           \* the value the handler returned
    dynamodb,       \* create_order.py:10, the module global, per environment
    events,         \* create_order.py:11
    putItemCalls,   \* table.put_item calls of the current invocation
    putEventsCalls, \* events.put_events calls of the current invocation
    fault,          \* what the two calls of the current invocation did
    getDynamodb,    \* get_order.py:9, the module global of the get function
    resourceCalls,  \* boto3.resource calls of create_order.py, per environment
    clientCalls,    \* boto3.client calls of create_order.py, per environment
    getResourceCalls, \* boto3.resource calls of get_order.py
    getReq,         \* the event of the latest get-order call a client observed
    getFault,       \* what the table read of that call did
    getResp,        \* the value that call returned
    getCalls,       \* the table reads of that call
    entry,          \* what began the construction: the stack, the factory or a sink
    sinkArg,        \* the sink type: the "sinkType" of the context, or the argument
    siemPc,         \* position of the construction
    sink,           \* the SiemSink instance the factory returned
    step,           \* statements of its create_sink executed so far
    constructs,     \* the constructs added to the scope
    links,          \* grants, dependencies, tags and alarm actions added
    siemError,      \* the exception that ended the construction
    stackTags,      \* the tags of the stack
    replicas,       \* the items of each replica of each orders table
    created,        \* the orders an API has answered 200 for
    regionIssued,   \* identifiers issued to orders created through the APIs
    regionSeen,     \* the latest answer of a regional API to a get-order
    stageOf,        \* the stage each pipeline execution is in
    running,        \* the actions of each execution that are in progress
    succeeded,      \* the actions of each execution that succeeded
    failed          \* the actions of each execution that failed

vars ==
    << environ, table, bus, clock, issued, invocations, pc, req, order, resp,
       dynamodb, events, putItemCalls, putEventsCalls, fault, getDynamodb,
       resourceCalls, clientCalls, getResourceCalls,
       getReq, getFault, getResp, getCalls,
       entry, sinkArg, siemPc, sink, step, constructs, links, siemError, stackTags,
       replicas, created, regionIssued, regionSeen,
       stageOf, running, succeeded, failed >>

createVars ==
    << clock, issued, invocations, pc, req, order, resp, dynamodb, events,
       putItemCalls, putEventsCalls, fault, bus, resourceCalls, clientCalls >>

\* what a client of get-order has seen
observedVars == << getReq, getFault, getResp, getCalls >>

\* the construction of the SIEM sinks
siemVars ==
    << entry, sinkArg, siemPc, sink, step, constructs, links, siemError, stackTags >>

\* the two regions
regionVars == << replicas, created, regionIssued, regionSeen >>

\* the deployment pipeline
pipelineVars == << stageOf, running, succeeded, failed >>

platformVars == << regionVars, pipelineVars >>

\* the state create-order leaves alone
otherVars ==
    << getDynamodb, getResourceCalls, observedVars, siemVars, platformVars >>

NoFault == [put |-> "none", pub |-> "none"]

\* requests of get-order: the event has no "pathParameters" key, has None
\* there, or has an object with or without "orderId" (0: without)
GetEvents ==
    { [hasPath |-> FALSE, path |-> "None", orderId |-> 0],
      [hasPath |-> TRUE, path |-> "None", orderId |-> 0] }
        \cup { [hasPath |-> TRUE, path |-> "object", orderId |-> i] :
                 i \in 0 .. MaxInvocations }

\* The module globals are None (lines 10-11), nothing is stored or published.
\* The stack sets both variables (api_compute_stack.py:62-65); the handlers
\* read os.environ inside their try blocks, so a function configured
\* without one of them is a state they can run in too.
InitApi ==
    /\ environ \in SUBSET EnvNames
    /\ table = {}
    /\ bus = {}
    /\ clock = 0
    /\ issued = 0
    /\ invocations = 0
    /\ pc = [p \in Procs |-> "idle"]
    /\ req = [p \in Procs |-> [hasBody |-> FALSE, body |-> Body("None", NoCustomer, NoMembers)]]
    /\ order = [p \in Procs |-> NoOrder]
    /\ resp = [p \in Procs |-> NoResponse]
    /\ dynamodb = [p \in Procs |-> FALSE]
    /\ events = [p \in Procs |-> FALSE]
    /\ putItemCalls = [p \in Procs |-> 0]
    /\ putEventsCalls = [p \in Procs |-> 0]
    /\ fault = [p \in Procs |-> NoFault]
    /\ getDynamodb = FALSE
    /\ resourceCalls = [p \in Procs |-> 0]
    /\ clientCalls = [p \in Procs |-> 0]
    /\ getResourceCalls = 0
    /\ getReq = [hasPath |-> FALSE, path |-> "None", orderId |-> 0]
    /\ getFault = "none"
    /\ getResp = NoResponse
    /\ getCalls = << >>

\* try_get_context gives None for a key the context lacks
NoContext == "<absent>"

\* no SiemSink instance
NoSink == [class |-> "", id |-> ""]

\* no exception
NoError == [type |-> "", message |-> ""]

\* a SiemSinksStack that nothing has constructed yet
InitSiemIdle ==
    /\ entry = "stack"
    /\ sinkArg = NoContext
    /\ siemPc = "start"
    /\ sink = NoSink
    /\ step = 0
    /\ constructs = {}
    /\ links = {}
    /\ siemError = NoError
    /\ stackTags = {}

\* the stacks the app declares (app-stacks.py) with the region of each
Regions == {"ap-southeast-2", "us-west-2"}
CoreStacks == {"PrimaryCoreStack", "SecondaryCoreStack"}
ApiStacks == {"PrimaryApiStack", "SecondaryApiStack"}

\* executions of the pipeline
MaxExecutions == 2
Executions == 1 .. MaxExecutions

\* no get-order answered yet
NoSeen == [api |-> "", orderId |-> 0, statusCode |-> 0]

\* both tables empty in every region, no execution of the pipeline started
InitPlatform ==
    /\ replicas = [c \in CoreStacks |-> [r \in Regions |-> {}]]
    /\ created = {}
    /\ regionIssued = 0
    /\ regionSeen = NoSeen
    /\ stageOf = [e \in Executions |-> 0]
    /\ running = [e \in Executions |-> {}]
    /\ succeeded = [e \in Executions |-> {}]
    /\ failed = [e \in Executions |-> {}]

Init == InitApi /\ InitSiemIdle /\ InitPlatform

(***************************************************************************)
(* create-order.                                                           *)
(***************************************************************************)
\* Validate without the except json.JSONDecodeError clause: the decode
\* error reaches except Exception
ValidateNoDecodeClause(ev) ==
    IF LoadsRaises(ev) # "" THEN ErrorResponse(500, "Internal server error")
    ELSE IF ev.body.k # "object" THEN ErrorResponse(500, "Internal server error")
    ELSE IF ~Truthy(ev.body.customerId) \/ ~TruthyItems(ev.body.items)
         THEN ErrorResponse(400, "Missing required fields")
    ELSE NoResponse

\* Validate with the decode error answered by a body without "error"
ValidateBareDecodeClause(ev) ==
    IF LoadsRaises(ev) = "JSONDecodeError" THEN Response(400, {"message"}, "Invalid JSON", NoOrder)
    ELSE ValidateNoDecodeClause(ev)

\* handler, lines 58-69 and the except clauses 79-89: what the handler
\* returns before create_order_record, or NoResponse when it goes on
Validate(ev) ==
    IF LoadsRaises(ev) = "JSONDecodeError" THEN ErrorResponse(400, "Invalid JSON")
    ELSE IF LoadsRaises(ev) # "" THEN ErrorResponse(500, "Internal server error")
    \* body.get on a value that is no dict raises AttributeError
    ELSE IF ev.body.k # "object" THEN ErrorResponse(500, "Internal server error")
    ELSE IF ~Truthy(ev.body.customerId) \/ ~TruthyItems(ev.body.items)
         THEN ErrorResponse(400, "Missing required fields")
    ELSE NoResponse

\* the handler returns r
Return(p, r) ==
    /\ resp' = [resp EXCEPT ![p] = r]
    /\ pc' = [pc EXCEPT ![p] = "done"]

\* handler is invoked with ev: json.loads and the validation
create_handler(p, ev) ==
    /\ pc[p] \in {"idle", "done"}
    /\ invocations' = invocations + 1
    /\ req' = [req EXCEPT ![p] = ev]
    /\ order' = [order EXCEPT ![p] = NoOrder]
    /\ putItemCalls' = [putItemCalls EXCEPT ![p] = 0]
    /\ putEventsCalls' = [putEventsCalls EXCEPT ![p] = 0]
    /\ fault' = [fault EXCEPT ![p] = NoFault]
    /\ IF Validate(ev) # NoResponse
       THEN Return(p, Validate(ev))
       ELSE /\ resp' = [resp EXCEPT ![p] = NoResponse]
            /\ pc' = [pc EXCEPT ![p] = "create"]
    /\ UNCHANGED << environ, table, bus, clock, issued, dynamodb, events,
                    resourceCalls, clientCalls >>
    /\ UNCHANGED otherVars

\* the handle assigned on every invocation, without the test for None
LazyAlways(handle, calls) == calls + 1

\* "if x is None: x = boto3...": the calls made once the statement has
\* run, given whether the global held a handle and the calls made before
Lazy(handle, calls) == IF handle THEN calls ELSE calls + 1

\* get_order_by_id is entered: the event carries an orderId
EntersRead(ev) == ev.hasPath /\ ev.path = "object" /\ ev.orderId # 0

\* an identifier generator that returns its previous value again
uuid4Repeats == IF issued = 0 THEN 1 ELSE issued

\* uuid.uuid4(): a value no earlier call returned
uuid4 == issued + 1

\* int(datetime.now().timestamp() + 90 * 24 * 60 * 60)
Ttl(now) == (now \div TicksPerSecond) + NinetyDays

\* a put_item that replaces the content of the table
PutItemTruncating(t, item) == {item}

\* a put_item whose write is lost
PutItemLost(t, item) == t

\* table.put_item(Item=item): the item replaces the one with its key
PutItem(t, item) ==
    { o \in t : ~(o.orderId = item.orderId /\ o.timestamp = item.timestamp) }
        \cup {item}

\* the except clause answering with the text of the exception
InternalServerErrorDetailed == ErrorResponse(500, "Error creating order: put_item")

\* the except clause raising again: the handler returns no response
InternalServerErrorReraised == NoResponse

\* the except clause of lines 84-89
InternalServerError == ErrorResponse(500, "Internal server error")

\* put_item inside a try block that swallows the exception
PutItemSwallowed(f) == FALSE

\* an exception of put_item leaves create_order_record and handler's try
\* block: nothing in between catches it
PutItemPropagates(f) == f = "raise"

\* create_order_record up to and including put_item
create_order_record(p) ==
    /\ pc[p] = "create"
    /\ dynamodb' = [dynamodb EXCEPT ![p] = TRUE]
    /\ resourceCalls' = [resourceCalls EXCEPT ![p] = Lazy(dynamodb[p], @)]
    /\ LET body == json_loads(req[p].body) IN
       IF "ORDERS_TABLE" \notin environ
       THEN \* os.environ[...] raises KeyError
            /\ Return(p, InternalServerError)
            /\ UNCHANGED << table, clock, issued, order, putItemCalls, fault >>
       ELSE \E t1 \in clock .. MaxClock :
            /\ issued' = uuid4
            /\ IF TotalRaises(body.items)
               THEN /\ clock' = t1
                    /\ Return(p, InternalServerError)
                    /\ UNCHANGED << table, order, putItemCalls, fault >>
               ELSE \E t2 \in t1 .. MaxClock, f \in {"ok", "raise"} :
                    LET item == create_item(body, uuid4, t1, Ttl(t2))
                    IN  /\ clock' = t2
                        /\ putItemCalls' = [putItemCalls EXCEPT ![p] = @ + 1]
                        /\ fault' = [fault EXCEPT ![p].put = f]
                        /\ table' = IF f = "ok" THEN PutItem(table, item) ELSE table
                        /\ IF PutItemPropagates(f)
                           THEN /\ Return(p, InternalServerError)
                                /\ UNCHANGED order
                           ELSE /\ order' = [order EXCEPT ![p] = item]
                                /\ pc' = [pc EXCEPT ![p] = "publish"]
                                /\ UNCHANGED resp
    /\ UNCHANGED << environ, bus, invocations, req, events, putEventsCalls,
                    clientCalls >>
    /\ UNCHANGED otherVars

\* AfterPutEvents with the exception of put_events logged and dropped
AfterPutEventsSwallowed(o, f) == OrderResponse(o)

\* lines 75-77 and 84-89: what handler returns once put_events raised
\* ("raise"), accepted the entry ("ok") or returned a result that reports
\* the entry as failed ("failed": no exception, the result is not read)
AfterPutEvents(o, f) ==
    IF f = "raise" THEN InternalServerError ELSE OrderResponse(o)

\* publish_order_event(order, "OrderCreated") and the handler's return
publish_order_event(p) ==
    /\ pc[p] = "publish"
    /\ events' = [events EXCEPT ![p] = TRUE]
    /\ clientCalls' = [clientCalls EXCEPT ![p] = Lazy(events[p], @)]
    /\ IF "EVENT_BUS_ARN" \notin environ
       THEN \* os.environ[...] raises KeyError
            /\ Return(p, InternalServerError)
            /\ UNCHANGED << bus, putEventsCalls, fault >>
       ELSE \E f \in {"ok", "raise", "failed"} :
            /\ putEventsCalls' = [putEventsCalls EXCEPT ![p] = @ + 1]
            /\ fault' = [fault EXCEPT ![p].pub = f]
            /\ bus' = IF f = "ok" THEN bus \cup {Entry(order[p], "OrderCreated")}
                      ELSE bus
            /\ Return(p, AfterPutEvents(order[p], f))
    /\ UNCHANGED << environ, table, clock, issued, invocations, req, order,
                    dynamodb, putItemCalls, resourceCalls >>
    /\ UNCHANGED otherVars

(***************************************************************************)
(* get-order.                                                              *)
(***************************************************************************)
\* a scan: the read without its key condition
QueryScan(t, order_id) == t

\* table.query(KeyConditionExpression=Key('orderId').eq(order_id)): the
\* items of the partition, in the order of the sort key
Query(t, order_id) == { o \in t : o.orderId = order_id }

First(items) == CHOOSE o \in items : \A o2 \in items : o.timestamp <= o2.timestamp

\* get_order_by_id reading with get_item(Key={'orderId': ...}): the table's
\* key is composite, the call raises ClientError and None is returned
get_order_by_id_get_item(t, order_id, f) == NoOrder

\* get_order_by_id: the item, or NoOrder for None
get_order_by_id(t, order_id, f) ==
    IF f = "ClientError" \/ Query(t, order_id) = {} THEN NoOrder
    ELSE First(Query(t, order_id))

\* "if not order" with the test left out: None is answered like an order
NotFoundNever(o) == FALSE

\* line 41: if not order
NotFound(o) == o = NoOrder

\* handler of get_order.py
GetResponse(t, env, ev, f) ==
    IF ~ev.hasPath THEN ErrorResponse(400, "Missing orderId parameter")
    ELSE IF ev.path = "None" THEN ErrorResponse(500, "Internal server error")
    ELSE IF ev.orderId = 0 THEN ErrorResponse(400, "Missing orderId parameter")
    \* os.environ["ORDERS_TABLE"] raises KeyError inside the handler's try
    ELSE IF "ORDERS_TABLE" \notin env THEN ErrorResponse(400, "Missing orderId parameter")
    ELSE IF f = "other" THEN ErrorResponse(500, "Internal server error")
    ELSE IF NotFound(get_order_by_id(t, ev.orderId, f))
         THEN ErrorResponse(404, "Order not found")
    ELSE OrderResponse(get_order_by_id(t, ev.orderId, f))

\* the faults the query can raise: none, botocore's ClientError, any other
GetFaults == {"none", "ClientError", "other"}

\* one get-order invocation: it reads the table and returns GetResponse
\* (whatever the query does); of the state it changes the module global
\* alone, on reaching line 15
get_handler(ev) ==
    /\ getDynamodb' = (getDynamodb \/ EntersRead(ev))
    /\ getResourceCalls' = IF EntersRead(ev) THEN Lazy(getDynamodb, getResourceCalls)
                           ELSE getResourceCalls
    /\ \A f \in GetFaults :
          GetResponse(table, environ, ev, f).statusCode \in {200, 400, 404, 500}
    /\ UNCHANGED << environ, table >>
    /\ UNCHANGED createVars
    /\ UNCHANGED observedVars
    /\ UNCHANGED siemVars
    /\ UNCHANGED platformVars

\* the handler reaches get_order_by_id's table.query: the event carries an
\* orderId and line 17 found the table's name
ReachesQuery(env, ev) ==
    ev.hasPath /\ ev.path = "object" /\ ev.orderId # 0 /\ "ORDERS_TABLE" \in env

\* the read of lines 21-23 as the table sees it: one query whose key
\* condition names the partition key alone
QueryCall(order_id) ==
    [op |-> "query", keys |-> {"orderId"}, orderId |-> order_id]

\* one get-order invocation whose caller keeps the response: the same
\* handler, with the request, the fault of the read, the reads made and the
\* value returned left for the caller to see
get_order(ev, f) ==
    /\ getDynamodb' = (getDynamodb \/ EntersRead(ev))
    /\ getResourceCalls' = IF EntersRead(ev) THEN Lazy(getDynamodb, getResourceCalls)
                           ELSE getResourceCalls
    /\ getReq' = ev
    /\ getFault' = IF ReachesQuery(environ, ev) THEN f ELSE "none"
    /\ getCalls' = IF ReachesQuery(environ, ev) THEN << QueryCall(ev.orderId) >>
                   ELSE << >>
    /\ getResp' = GetResponse(table, environ, ev, f)
    /\ UNCHANGED << environ, table >>
    /\ UNCHANGED createVars
    /\ UNCHANGED siemVars
    /\ UNCHANGED platformVars

\* the concurrent system: both environments, both handlers
Next ==
    \/ \E p \in Procs, ev \in SampleEvents :
          invocations < MaxInvocations /\ create_handler(p, ev)
    \/ \E p \in Procs : create_order_record(p)
    \/ \E p \in Procs : publish_order_event(p)
    \/ \E ev \in GetEvents : get_handler(ev)

Spec == Init /\ [][Next]_vars

\* one create-order invocation, for every request within the bounds
NextRequest ==
    \/ \E ev \in CreateEvents : invocations = 0 /\ create_handler("p1", ev)
    \/ create_order_record("p1")
    \/ publish_order_event("p1")

SpecRequest == Init /\ [][NextRequest]_vars

\* one environment creating orders and a client reading them back
NextGet ==
    \/ \E ev \in SampleEvents :
          invocations < MaxInvocations /\ create_handler("p1", ev)
    \/ create_order_record("p1")
    \/ publish_order_event("p1")
    \/ \E ev \in GetEvents, f \in GetFaults : get_order(ev, f)

SpecGet == Init /\ [][NextGet]_vars

\* every kind of event, with the items of an object among SampleLists
TotalEvents == EventsOver(SampleLists)

\* one create-order invocation and any get-order calls, each running to its
\* return: the runtime executes a started handler to the end, and a call
\* of boto3 returns or raises
NextTotal ==
    \/ \E ev \in TotalEvents : invocations = 0 /\ create_handler("p1", ev)
    \/ create_order_record("p1")
    \/ publish_order_event("p1")
    \/ \E ev \in GetEvents, f \in GetFaults : get_order(ev, f)

SpecTotal ==
    /\ Init /\ [][NextTotal]_vars
    /\ WF_vars(create_order_record("p1"))
    /\ WF_vars(publish_order_event("p1"))

(***************************************************************************)
(* The SIEM sinks: siem_sinks_stack.py.                                    *)
(***************************************************************************)
\* the sink types the factory knows
SinkTypes == {"opensearch", "splunk", "elastic"}

\* some of the strings it does not know
OtherSinkTypes == {"invalid", "OpenSearch", "kinesis", "splunk "}

\* what the context, or a caller of the factory, can pass: nothing, the
\* empty string, any string
SinkTypeValues == {NoContext, ""} \cup SinkTypes \cup OtherSinkTypes

\* f"{sink_type}"
Format(s) == IF s = NoContext THEN "None" ELSE s

ValueError(message) == [type |-> "ValueError", message |-> message]

SiemSink(class, id) == [class |-> class, id |-> id]

\* the sinks the tests construct themselves (test_siem_sinks_stack.py)
TestSinks ==
    { SiemSink("OpenSearchSink", "OpenSearchTest"),
      SiemSink("SplunkSink", "SplunkTest"),
      SiemSink("ElasticSink", "ElasticTest") }

\* a factory that compares the sink type without regard to case
SiemSinksFactoryCaseless(sink_type) ==
    IF sink_type \in {"opensearch", "OpenSearch"}
    THEN SiemSink("OpenSearchSink", "OpenSearch")
    ELSE IF sink_type = "splunk" THEN SiemSink("SplunkSink", "Splunk")
    ELSE IF sink_type = "elastic" THEN SiemSink("ElasticSink", "Elastic")
    ELSE NoSink

\* a factory whose else branch returns a default sink
SiemSinksFactoryDefaulting(sink_type) ==
    IF sink_type = "splunk" THEN SiemSink("SplunkSink", "Splunk")
    ELSE IF sink_type = "elastic" THEN SiemSink("ElasticSink", "Elastic")
    ELSE SiemSink("OpenSearchSink", "OpenSearch")

\* SiemSinksFactory.create_sink: the instance it returns, NoSink where it
\* raises
SiemSinksFactory(sink_type) ==
    IF sink_type = "opensearch" THEN SiemSink("OpenSearchSink", "OpenSearch")
    ELSE IF sink_type = "splunk" THEN SiemSink("SplunkSink", "Splunk")
    ELSE IF sink_type = "elastic" THEN SiemSink("ElasticSink", "Elastic")
    ELSE NoSink

\* line 325
Unsupported(sink_type) ==
    ValueError("Unsupported SIEM sink type: " \o Format(sink_type))

\* lines 346-348
MissingSinkType ==
    ValueError("A 'sinkType' must be provided in the CDK context (e.g., 'opensearch', 'splunk', 'elastic').")

\* the properties of a construct the model keeps
NoProps ==
    [s3_backup_mode |-> "", compression_format |-> "", duration_in_seconds |-> 0,
     bucket |-> "", role |-> "", stream |-> "", metric_name |-> "",
     period |-> 0, threshold |-> 0, evaluation_periods |-> 0,
     comparison_operator |-> ""]

\* a statement that adds a construct to the scope
New(kind, id, props) ==
    [op |-> "new", kind |-> kind, id |-> id, props |-> props, to |-> ""]

\* a statement that ties a construct to another one or to a value
Link(rel, id, to) ==
    [op |-> "link", kind |-> rel, id |-> id, props |-> NoProps, to |-> to]

\* SiemSink._create_backup_bucket
create_backup_bucket(id) ==
    << New("Bucket", id \o "BackupBucket", NoProps),
       Link("tag:Purpose", id \o "BackupBucket", "SIEM Sink Backup") >>

\* SiemSink._create_firehose_role
create_firehose_role(id, name, backup_bucket) ==
    << New("Role", id \o name \o "FirehoseRole", NoProps),
       Link("grant_read", id \o name \o "FirehoseRole", "SecurityLake.data_lake_bucket"),
       Link("grant_decrypt", id \o name \o "FirehoseRole", "SecurityLake.kms_key"),
       Link("grant_write", id \o name \o "FirehoseRole", backup_bucket) >>

\* the alarms of lines 90-104 and 108-122
Alarm(alarm_id, delivery_stream_name, metric_name) ==
    New("Alarm", alarm_id,
        [NoProps EXCEPT !.stream = delivery_stream_name,
                        !.metric_name = metric_name,
                        !.period = 5,
                        !.threshold = 1,
                        !.evaluation_periods = 1,
                        !.comparison_operator = "LESS_THAN_THRESHOLD"])

\* _create_cloudwatch_alarms without the alarm for 5xx errors
create_cloudwatch_alarms_4xx_only(id, delivery_stream_name, sink_type) ==
    << New("Topic", id \o sink_type \o "AlarmTopic", NoProps),
       Alarm(id \o sink_type \o "4xxErrorsAlarm", delivery_stream_name,
             "DeliveryTo" \o sink_type \o ".Success"),
       Link("alarm_action", id \o sink_type \o "4xxErrorsAlarm",
            id \o sink_type \o "AlarmTopic") >>

\* SiemSink._create_cloudwatch_alarms
create_cloudwatch_alarms(id, delivery_stream_name, sink_type) ==
    << New("Topic", id \o sink_type \o "AlarmTopic", NoProps),
       Alarm(id \o sink_type \o "4xxErrorsAlarm", delivery_stream_name,
             "DeliveryTo" \o sink_type \o ".Success"),
       Link("alarm_action", id \o sink_type \o "4xxErrorsAlarm",
            id \o sink_type \o "AlarmTopic"),
       Alarm(id \o sink_type \o "5xxErrorsAlarm", delivery_stream_name,
             "DeliveryTo" \o sink_type \o ".HttpEndpoint.Success"),
       Link("alarm_action", id \o sink_type \o "5xxErrorsAlarm",
            id \o sink_type \o "AlarmTopic") >>

\* firehose.CfnDeliveryStream of lines 221-239 and 272-302
DeliveryStream(stream_id, backup_bucket, firehose_role) ==
    New("DeliveryStream", stream_id,
        [NoProps EXCEPT !.s3_backup_mode = "FailedDataOnly",
                        !.compression_format = "GZIP",
                        !.duration_in_seconds = 300,
                        !.bucket = backup_bucket,
                        !.role = firehose_role])

\* OpenSearchSink.create_sink, statement by statement
OpenSearchSink(id) ==
    << New("Collection", "OpenSearchServerlessCollection", NoProps),
       New("AccessPolicy", "OpenSearchAccessPolicy", NoProps),
       Link("depends_on", "OpenSearchAccessPolicy", "OpenSearchServerlessCollection"),
       New("Subscriber", "OpenSearchSubscriber", NoProps),
       Link("depends_on", "OpenSearchSubscriber", "OpenSearchAccessPolicy"),
       New("Output", "OpenSearchCollectionEndpoint", NoProps) >>

\* SplunkSink.create_sink
SplunkSink(id) ==
    << New("Parameter", "SplunkHecUrl", NoProps),
       New("Parameter", "SplunkHecToken", NoProps) >>
    \o create_backup_bucket(id)
    \o create_firehose_role(id, "Splunk", id \o "BackupBucket")
    \o << DeliveryStream("SplunkDeliveryStream", id \o "BackupBucket",
                         id \o "Splunk" \o "FirehoseRole") >>
    \o create_cloudwatch_alarms(id, "SplunkDeliveryStream", "Splunk")
    \o << New("Output", "SplunkDeliveryStreamName", NoProps) >>

\* ElasticSink.create_sink
ElasticSink(id) ==
    << New("Parameter", "ElasticEndpoint", NoProps),
       New("Parameter", "ElasticUsername", NoProps),
       New("Parameter", "ElasticPassword", NoProps) >>
    \o create_backup_bucket(id)
    \o create_firehose_role(id, "Elastic", id \o "BackupBucket")
    \o << DeliveryStream("ElasticDeliveryStream", id \o "BackupBucket",
                         id \o "Elastic" \o "FirehoseRole") >>
    \o create_cloudwatch_alarms(id, "ElasticDeliveryStream", "Elastic")
    \o << New("Output", "ElasticDeliveryStreamName", NoProps) >>

\* sink.create_sink(): the statements of the method of the sink's class
create_sink(s) ==
    IF s.class = "OpenSearchSink" THEN OpenSearchSink(s.id)
    ELSE IF s.class = "SplunkSink" THEN SplunkSink(s.id)
    ELSE ElasticSink(s.id)

\* the order API, which the construction leaves alone
apiVars ==
    << environ, table, createVars, getDynamodb, getResourceCalls, observedVars >>

\* the construction ends with the exception e
Raise(e) ==
    /\ siemPc' = "failed"
    /\ siemError' = e

\* SiemSinksStack.__init__, lines 342-348: the context is read and checked
SiemSinksStack_init ==
    /\ entry = "stack" /\ siemPc = "start"
    /\ IF sinkArg \in {NoContext, ""}
       THEN Raise(MissingSinkType)
       ELSE siemPc' = "factory" /\ UNCHANGED siemError
    /\ UNCHANGED << entry, sinkArg, sink, step, constructs, links, stackTags >>
    /\ UNCHANGED apiVars
    /\ UNCHANGED platformVars

\* factory.create_sink(sink_type): line 351, or the call of a test
factory_create_sink ==
    /\ \/ entry = "stack" /\ siemPc = "factory"
       \/ entry = "factory" /\ siemPc = "start"
    /\ IF SiemSinksFactory(sinkArg) = NoSink
       THEN Raise(Unsupported(sinkArg)) /\ UNCHANGED sink
       ELSE /\ sink' = SiemSinksFactory(sinkArg)
            /\ siemPc' = "sink"
            /\ UNCHANGED siemError
    /\ UNCHANGED << entry, sinkArg, step, constructs, links, stackTags >>
    /\ UNCHANGED apiVars
    /\ UNCHANGED platformVars

\* sink.create_sink(), line 352: its next statement
sink_create_sink ==
    /\ siemPc = "sink"
    /\ step < Len(create_sink(sink))
    /\ LET stmt == create_sink(sink)[step + 1] IN
          /\ constructs' = IF stmt.op = "new" THEN constructs \cup {stmt} ELSE constructs
          /\ links' = IF stmt.op = "link" THEN links \cup {stmt} ELSE links
    /\ step' = step + 1
    /\ siemPc' = IF step + 1 = Len(create_sink(sink)) THEN "created" ELSE "sink"
    /\ UNCHANGED << entry, sinkArg, sink, siemError, stackTags >>
    /\ UNCHANGED apiVars
    /\ UNCHANGED platformVars

\* lines 354-355
stack_tags ==
    /\ entry = "stack" /\ siemPc = "created"
    /\ stackTags' = {<< "Project", "Ecommerce" >>, << "Stack", "SiemSinks" >>}
    /\ siemPc' = "done"
    /\ UNCHANGED << entry, sinkArg, sink, step, constructs, links, siemError >>
    /\ UNCHANGED apiVars
    /\ UNCHANGED platformVars

\* a construction is begun by the app (app-stacks.py:43-48) with any
\* context, by a call of the factory with any argument, or by a test that
\* instantiates a sink itself
InitSiem ==
    /\ InitApi
    /\ environ = EnvNames
    /\ \/ entry \in {"stack", "factory"} /\ sinkArg \in SinkTypeValues
          /\ siemPc = "start" /\ sink = NoSink
       \/ entry = "sink" /\ sinkArg = NoContext
          /\ siemPc = "sink" /\ sink \in TestSinks
    /\ step = 0
    /\ constructs = {}
    /\ links = {}
    /\ siemError = NoError
    /\ stackTags = {}
    /\ InitPlatform

NextSiem ==
    \/ SiemSinksStack_init
    \/ factory_create_sink
    \/ sink_create_sink
    \/ stack_tags

SpecSiem == InitSiem /\ [][NextSiem]_vars

(***************************************************************************)
(* Properties.                                                             *)
(***************************************************************************)
Done(p) == pc[p] = "done"

\* the body is the text of some JSON value
ParsesAsJson(ev) ==
    ev.hasBody /\ ev.body.k \in {"null", "array", "string", "number", "object"}

\* the body holds a non-empty customerId and a non-empty items
HasRequiredFields(ev) ==
    ev.body.k = "object" /\ Truthy(ev.body.customerId) /\ TruthyItems(ev.body.items)

\* the body is a text that is no JSON
Malformed(ev) == ev.hasBody /\ ev.body.k = "malformed"

NumberLit(v) == v.k \in {"int", "float"}

\* a customer and a non-empty list of objects, each with a price and a
\* quantity that are numbers
ValidRequest(ev) ==
    /\ ev.hasBody
    /\ ev.body.k = "object"
    /\ Truthy(ev.body.customerId)
    /\ ev.body.items.k = "list"
    /\ Len(ev.body.items.v) > 0
    /\ \A n \in DOMAIN ev.body.items.v :
          LET it == ev.body.items.v[n]
          IN  it.obj /\ NumberLit(it.price) /\ NumberLit(it.quantity)

NoCalls(p) == putItemCalls[p] = 0 /\ putEventsCalls[p] = 0

\* C1: create-order answers every request whose body is JSON (of any kind)
\* but lacks a non-empty customerId or a non-empty items with 400 "Missing
\* required fields", and calls neither put_item nor put_events.
C1_MissingFields ==
    \A p \in Procs :
        Done(p) /\ ParsesAsJson(req[p]) /\ ~HasRequiredFields(req[p])
            => /\ resp[p] = ErrorResponse(400, "Missing required fields")
               /\ NoCalls(p)

NothingFailed(p) ==
    /\ EnvNames \subseteq environ
    /\ fault[p].put # "raise"
    /\ fault[p].pub \notin {"raise", "failed"}

\* C4: a valid request, with the table and the bus not failing, is answered
\* 200 with the created order (the request's customerId, status PENDING, an
\* orderId and a timestamp); put_item and put_events are called once each,
\* the table gains that one record and the bus that one OrderCreated entry,
\* whose detail is the same order.
C4_CreateSucceeds ==
    \A p \in Procs :
        Done(p) /\ ValidRequest(req[p]) /\ NothingFailed(p)
            => /\ resp[p].statusCode = 200
               /\ resp[p].body.order = json_dumps(order[p])
               /\ resp[p].body.order.customerId = req[p].body.customerId
               /\ resp[p].body.order.status = "PENDING"
               /\ {"orderId", "timestamp"} \subseteq resp[p].body.keys
               /\ resp[p].body.order.orderId \in OrderIds
               /\ putItemCalls[p] = 1 /\ putEventsCalls[p] = 1
               /\ table = {order[p]}
               /\ bus = {[Source |-> "ecommerce.orders", DetailType |-> "OrderCreated",
                          Detail |-> resp[p].body.order]}

C4_Witness ==
    \E p \in Procs :
        /\ Done(p) /\ ValidRequest(req[p]) /\ NothingFailed(p)
        /\ resp[p].statusCode = 200
        /\ Len(req[p].body.items.v) = 2
        /\ Cardinality(table) = 1 /\ Cardinality(bus) = 1

\* a number in hundredths (numbers of the model have at most two decimals)
Hundredths(v) == v.coef * Pow10(v.exp + 2)

\* the sum of price x quantity in integer arithmetic, in units of 1/10000
RECURSIVE ExactTotal(_)
ExactTotal(items) ==
    IF items = << >> THEN 0
    ELSE Hundredths(Head(items).price) * Hundredths(Head(items).quantity)
            + ExactTotal(Tail(items))

\* a Decimal (or its text) in units of 1/10000
TenThousandths(d) == d.coef * Pow10(d.exp + 4)

ReferenceItems ==
    << Item(FloatLit(1099, -2), IntLit(2)), Item(FloatLit(2999, -2), IntLit(1)) >>

\* C5: the totalAmount stored and the totalAmount returned are the exact
\* decimal sum of price x quantity over the items of the request; 10.99 x 2
\* + 29.99 x 1 gives exactly 51.97.
C5_ExactTotal ==
    /\ \A o \in table :
          /\ o.totalAmount.k = "Decimal"
          /\ o.totalAmount.exp >= -4
          /\ TenThousandths(o.totalAmount) = ExactTotal(o.items)
    /\ \A p \in Procs :
          Done(p) /\ resp[p].statusCode = 200
              => /\ resp[p].body.order.totalAmount.num
                 /\ TenThousandths(resp[p].body.order.totalAmount)
                        = ExactTotal(req[p].body.items.v)
                 /\ req[p].body.items.v = ReferenceItems
                        => /\ order[p].totalAmount = Val("Decimal", TRUE, 5197, -2)
                           /\ order[p] \in table

C5_Witness ==
    \E p \in Procs :
        /\ Done(p) /\ resp[p].statusCode = 200
        /\ req[p].body.items.v = ReferenceItems
        /\ \E o \in table : o.totalAmount.coef = 5197 /\ o.totalAmount.exp = -2

\* C6: when put_item or put_events raises on a request that passed the
\* validation, the handler returns 500 "Internal server error".
C6_FaultIs500 ==
    \A p \in Procs :
        Done(p) /\ (fault[p].put = "raise" \/ fault[p].pub = "raise")
            => resp[p] = ErrorResponse(500, "Internal server error")

C6_Witness ==
    \E p, q \in Procs :
        /\ Done(p) /\ fault[p].put = "raise" /\ resp[p].statusCode = 500
        /\ Done(q) /\ fault[q].pub = "raise" /\ resp[q].statusCode = 500

\* C7: an invocation calls put_item at most once and put_events at most
\* once, and put_events only after its put_item succeeded; every entry on
\* the bus is the order of a record in the table.
C7_WriteThenPublish ==
    /\ \A p \in Procs :
          /\ putItemCalls[p] <= 1
          /\ putEventsCalls[p] <= 1
          /\ putEventsCalls[p] = 1
                => putItemCalls[p] = 1 /\ fault[p].put = "ok" /\ order[p] \in table
    /\ \A e \in bus : \E o \in table : e.Detail = json_dumps(o)

C7_Witness ==
    \E p \in Procs :
        /\ putItemCalls[p] = 1 /\ putEventsCalls[p] = 1 /\ fault[p].pub = "ok"
        /\ Entry(order[p], "OrderCreated") \in bus

\* the get-order request for an orderId
GetEvent(id) == [hasPath |-> TRUE, path |-> "object", orderId |-> id]

C9_DistinctOrderIds ==
    /\ [](/\ \A o1, o2 \in table : o1.orderId = o2.orderId => o1 = o2
          /\ \A p, q \in Procs :
                p # q /\ order[p] # NoOrder /\ order[q] # NoOrder
                    => order[p].orderId # order[q].orderId)
    /\ [][\A p \in Procs :
            order'[p] # order[p] /\ order'[p] # NoOrder
                => \A o \in table : o.orderId # order'[p].orderId]_vars

C9_Witness ==
    \E p, q \in Procs :
        /\ p # q
        /\ Done(p) /\ resp[p].statusCode = 200
        /\ Done(q) /\ resp[q].statusCode = 200
        /\ Cardinality(table) = 2

\* C10: the ttl of every stored order is the instant of its timestamp, in
\* whole seconds, plus 90 days, under the attribute the table declares as
\* its time-to-live attribute.
C10_TtlNinetyDays ==
    \A o \in table :
        /\ TimeToLiveAttribute \in DOMAIN o
        /\ o[TimeToLiveAttribute] = (o.timestamp \div TicksPerSecond) + NinetyDays

\* a client has observed a get-order call
Observed == getResp # NoResponse

\* the event carries no orderId path parameter: "pathParameters" is absent,
\* is null, or is an object without "orderId"
LacksOrderId(ev) == ~ev.hasPath \/ ev.path = "None" \/ ev.orderId = 0

\* C11: every get-order request without an orderId path parameter
\* (pathParameters absent, null, or an object without orderId) is answered
\* 400 {"error": "Missing orderId parameter"} and makes no read of the table.
C11_MissingOrderId ==
    Observed /\ LacksOrderId(getReq)
        => /\ getResp = ErrorResponse(400, "Missing orderId parameter")
           /\ getCalls = << >>

\* C12: a get-order request whose orderId matches no record of the table,
\* in a function that knows its table and whose read did not fail, is
\* answered 404 {"error": "Order not found"}.
C12_UnknownOrderId ==
    (/\ Observed /\ ~LacksOrderId(getReq)
     /\ "ORDERS_TABLE" \in environ /\ getFault = "none"
     /\ \A o \in table : o.orderId # getReq.orderId)
        => getResp = ErrorResponse(404, "Order not found")

C12_Witness ==
    /\ Observed /\ ~LacksOrderId(getReq)
    /\ "ORDERS_TABLE" \in environ /\ getFault = "none"
    /\ table # {}
    /\ \A o \in table : o.orderId # getReq.orderId
    /\ getCalls = << QueryCall(getReq.orderId) >>
    /\ getResp.statusCode = 404

\* C13: whenever the read of the table raises, for every orderId, get-order
\* answers 500 with the generic error, never 404 "Order not found".
C13_ReadFaultIs500 ==
    Observed /\ getFault # "none"
        => getResp = ErrorResponse(500, "Internal server error")

SameOrder(r1, r2) ==
    /\ r1.body.order.orderId = r2.body.order.orderId
    /\ r1.body.order.customerId = r2.body.order.customerId
    /\ r1.body.order.status = r2.body.order.status

\* C15: once create-order has returned 200 with orderId X, a get-order for
\* X whose read does not fail returns 200 with the orderId, customerId and
\* status of the create response: in every later state, and for every call
\* a client observes from then on.
C15_RoundTrip ==
    /\ [](\A p \in Procs :
            Done(p) /\ resp[p].statusCode = 200
                => LET r == GetResponse(table, environ,
                                        GetEvent(resp[p].body.order.orderId), "none")
                   IN  /\ r.statusCode = 200
                       /\ {"orderId", "customerId", "status"} \subseteq r.body.keys
                       /\ SameOrder(r, resp[p]))
    /\ [][\A p \in Procs :
            (/\ Done(p) /\ resp[p].statusCode = 200
             /\ observedVars' # observedVars
             /\ getReq' = GetEvent(resp[p].body.order.orderId)
             /\ getFault' = "none")
                => /\ getResp'.statusCode = 200
                   /\ SameOrder(getResp', resp[p])]_vars

C15_Witness ==
    \E p \in Procs :
        /\ Done(p) /\ resp[p].statusCode = 200
        /\ Truthy(resp[p].body.order.customerId)
        /\ Observed /\ getReq = GetEvent(resp[p].body.order.orderId)
        /\ getFault = "none"
        /\ getResp.statusCode = 200
        /\ SameOrder(getResp, resp[p])
        /\ putEventsCalls[p] = 1

\* C16: in the 200 response of create-order, totalAmount is a JSON number
\* equal to the computed sum, 51.97 for the reference items, not a string.
C16_TotalIsNumber ==
    \A p \in Procs :
        Done(p) /\ resp[p].statusCode = 200
            => /\ NumberLit(resp[p].body.order.totalAmount)
               /\ TenThousandths(resp[p].body.order.totalAmount)
                      = ExactTotal(req[p].body.items.v)
               /\ req[p].body.items.v = ReferenceItems
                      => /\ resp[p].body.order.totalAmount.coef = 5197
                         /\ resp[p].body.order.totalAmount.exp = -2

\* the messages a client can be sent
FixedMessages ==
    {"Missing required fields", "Invalid JSON", "Missing orderId parameter",
     "Order not found", "Internal server error"}

\* the body is exactly {"error": m} with m one of the fixed messages
ErrorBody(r) ==
    /\ r.body.keys = {"error"}
    /\ r.body.error \in FixedMessages
    /\ r.body.order = NoOrder

\* C17: every non-200 response of either handler has a body that is exactly
\* {"error": m} with m one of the fixed messages, and failures of one class
\* (one status and message) are answered identically whatever raised: each
\* 500 is the same response, in both handlers.
C17_StableErrors ==
    /\ \A p \in Procs :
          Done(p) /\ resp[p].statusCode # 200
              => /\ ErrorBody(resp[p])
                 /\ resp[p].statusCode = 500
                        => resp[p] = ErrorResponse(500, "Internal server error")
    /\ Observed /\ getResp.statusCode # 200
          => /\ ErrorBody(getResp)
             /\ getResp.statusCode = 500
                    => getResp = ErrorResponse(500, "Internal server error")
    /\ \A p \in Procs :
          Done(p) /\ resp[p].statusCode = 500 /\ Observed /\ getResp.statusCode = 500
              => resp[p] = getResp

\* a create-order that failed on put_item and a get-order that failed on a
\* null pathParameters: two exceptions, one response
C17_Witness ==
    \E p \in Procs :
        /\ Done(p) /\ fault[p].put = "raise" /\ resp[p].statusCode = 500
        /\ Observed /\ getReq.hasPath /\ getReq.path = "None"
        /\ getResp.statusCode = 500
        /\ resp[p] = getResp

\* the factory has returned a sink
FactoryReturned == siemPc \in {"sink", "created", "done"} /\ entry # "sink"

\* C18: SiemSinksFactory.create_sink maps "opensearch" to OpenSearchSink,
\* "splunk" to SplunkSink and "elastic" to ElasticSink; for every other
\* string s it returns nothing and raises a ValueError whose message is
\* "Unsupported SIEM sink type: s".
C18_FactoryMapping ==
    /\ FactoryReturned
          => /\ sinkArg \in SinkTypes
             /\ sinkArg = "opensearch" => sink.class = "OpenSearchSink"
             /\ sinkArg = "splunk" => sink.class = "SplunkSink"
             /\ sinkArg = "elastic" => sink.class = "ElasticSink"
    /\ entry # "sink" /\ sinkArg \notin SinkTypes
          => /\ sink = NoSink
             /\ siemPc \in {"start", "factory", "failed"}
    /\ entry = "factory" /\ siemPc = "failed"
          => /\ sinkArg \notin SinkTypes
             /\ siemError.type = "ValueError"
             /\ sinkArg # NoContext
                   => siemError.message = "Unsupported SIEM sink type: " \o sinkArg

C18_Witness ==
    /\ entry = "factory" /\ sinkArg = "OpenSearch"
    /\ siemPc = "failed"
    /\ sink = NoSink
    /\ siemError = ValueError("Unsupported SIEM sink type: OpenSearch")

\* C19: a SiemSinksStack whose sinkType is absent, empty or unrecognized
\* fails with a ValueError, and does so with no sink construct created: no
\* construct, link or tag is ever added for it, a failed construction has
\* none, and the only step such a construction takes after reading the
\* context is the raise.
C19_FailsBeforeResources ==
    /\ [](/\ entry = "stack" /\ sinkArg \notin SinkTypes
                => /\ constructs = {} /\ links = {} /\ stackTags = {}
                   /\ sink = NoSink
                   /\ siemPc \in {"start", "factory", "failed"}
                   /\ siemPc = "factory" => sinkArg \notin {NoContext, ""}
          /\ siemPc = "failed"
                => /\ siemError.type = "ValueError"
                   /\ constructs = {} /\ links = {} /\ stackTags = {}
                   /\ sinkArg \notin SinkTypes)
    /\ [][entry = "stack" /\ sinkArg \notin SinkTypes /\ siemPc' # siemPc
            => \/ siemPc = "start" /\ siemPc' = "failed" /\ sinkArg \in {NoContext, ""}
               \/ siemPc = "start" /\ siemPc' = "factory"
               \/ siemPc = "factory" /\ siemPc' = "failed"]_vars

C19_Witness ==
    /\ entry = "stack" /\ sinkArg = "invalid"
    /\ siemPc = "failed"
    /\ siemError = ValueError("Unsupported SIEM sink type: invalid")
    /\ constructs = {}

\* the constructs of one kind
Provisioned(kind) == { c \in constructs : c.kind = kind }

\* a backup bucket, a role, a delivery stream that retries for 300 seconds,
\* compresses and backs up failed data only into that bucket with that
\* role, and exactly two alarms, each over one 5-minute period with "less
\* than threshold 1"
FirehoseDelivery ==
    /\ \E b \in Provisioned("Bucket"), r \in Provisioned("Role"),
          d \in Provisioned("DeliveryStream") :
            /\ d.props.duration_in_seconds = 300
            /\ d.props.compression_format = "GZIP"
            /\ d.props.s3_backup_mode = "FailedDataOnly"
            /\ d.props.bucket = b.id
            /\ d.props.role = r.id
            /\ [op |-> "link", kind |-> "grant_write", id |-> r.id,
                props |-> NoProps, to |-> b.id] \in links
    /\ Cardinality(Provisioned("Alarm")) = 2
    /\ \A a \in Provisioned("Alarm") :
            /\ a.props.period = 5
            /\ a.props.evaluation_periods = 1
            /\ a.props.threshold = 1
            /\ a.props.comparison_operator = "LESS_THAN_THRESHOLD"

\* create_sink has returned
SinkCreated == siemPc \in {"created", "done"}

C21_HandlesCreatedOnce ==
    /\ [](/\ \A p \in Procs :
                /\ resourceCalls[p] <= 1 /\ clientCalls[p] <= 1
                /\ dynamodb[p] <=> resourceCalls[p] = 1
                /\ events[p] <=> clientCalls[p] = 1
          /\ getResourceCalls <= 1
          /\ getDynamodb <=> getResourceCalls = 1)
    /\ [][/\ \A p \in Procs :
                /\ dynamodb[p] => dynamodb'[p] /\ resourceCalls'[p] = resourceCalls[p]
                /\ events[p] => events'[p] /\ clientCalls'[p] = clientCalls[p]
          /\ getDynamodb => getDynamodb' /\ getResourceCalls' = getResourceCalls]_vars
    /\ [][\A p \in Procs :
            pc[p] \in {"idle", "done"} /\ pc'[p] \in {"create", "publish"}
                => /\ order'[p] = NoOrder
                   /\ putItemCalls'[p] = 0 /\ putEventsCalls'[p] = 0
                   /\ fault'[p] = NoFault
                   /\ resp'[p] = NoResponse]_vars

\* one environment has served two orders through one table resource and
\* one events client
C21_Witness ==
    \E p \in Procs :
        /\ Done(p) /\ resp[p].statusCode = 200
        /\ Cardinality(table) = 2
        /\ \A q \in Procs \ {p} : pc[q] = "idle" /\ ~dynamodb[q]
        /\ dynamodb[p] /\ resourceCalls[p] = 1
        /\ events[p] /\ clientCalls[p] = 1

\* C22: no handler updates or deletes an order: every record of the table
\* stays in it, unchanged, through every step; every stored order has
\* status "PENDING"; and a get-order step changes neither the table nor
\* the bus.
C22_NoUpdateNoDelete ==
    /\ [](\A o \in table : o.status = "PENDING")
    /\ [][\A o \in table : o \in table']_vars
    /\ [][observedVars' # observedVars \/ getDynamodb' # getDynamodb
            => table' = table /\ bus' = bus]_vars

C22_Witness ==
    /\ Cardinality(table) = 2
    /\ bus # {}
    /\ Observed /\ getResp.statusCode = 200
    /\ \E o \in table : o.orderId = getReq.orderId

\* C23: whenever create-order returns 200, the bus has accepted the
\* OrderCreated entry of that order: a put_events that raises and one whose
\* result reports the entry as failed both end in a response that is not
\* 200.
C23_PublishedWhen200 ==
    \A p \in Procs :
        Done(p) /\ resp[p].statusCode = 200
            => /\ Entry(order[p], "OrderCreated") \in bus
               /\ fault[p].pub = "ok"

\* C24: get-order answers 400 "Missing orderId parameter" only to a request
\* that lacks the orderId path parameter.
C24_MissingOrderIdOnly ==
    Observed /\ getResp = ErrorResponse(400, "Missing orderId parameter")
        => LacksOrderId(getReq)

\* C26: in every state, under every interleaving of the create
\* invocations, the table holds at most one record per orderId: the
\* partition a query by orderId reads has at most one item, which is its
\* first.
C26_OneRecordPerOrderId ==
    \A o \in table :
        /\ { o2 \in table : o2.orderId = o.orderId } = {o}
        /\ Cardinality(Query(table, o.orderId)) = 1
        /\ First(Query(table, o.orderId)) = o

\* two environments have written at the same instant
C26_Witness ==
    /\ \A p \in Procs : Done(p) /\ putItemCalls[p] = 1 /\ fault[p].put = "ok"
    /\ \E o1, o2 \in table :
          o1 # o2 /\ o1.timestamp = o2.timestamp /\ o1.orderId # o2.orderId

\* C27: create-order takes no orderId, timestamp, status, totalAmount or
\* ttl from the caller: whatever further members the body carries, the
\* stored record and the published entry have exactly the seven fields,
\* status "PENDING", an orderId the server generated, the customerId and
\* items of the request and the totalAmount computed from those items.
C27_ServerSideFields ==
    \A p \in Procs :
        order[p] # NoOrder
            => LET body == json_loads(req[p].body) IN
               /\ DOMAIN order[p] = OrderKeys
               /\ order[p].status = "PENDING"
               /\ order[p].orderId \in 1 .. issued
               /\ order[p].customerId = body.customerId
               /\ order[p].items = body.items.v
               /\ order[p].totalAmount = SumAmounts(body.items.v, IntLit(0))
               /\ table = {order[p]}
               /\ \A e \in bus :
                     /\ e.DetailType = "OrderCreated"
                     /\ DOMAIN e.Detail = OrderKeys
                     /\ e.Detail = json_dumps(order[p])

\* a caller that supplied all five reserved members got an order built
\* without them
C27_Witness ==
    \E p \in Procs :
        /\ Done(p) /\ resp[p].statusCode = 200
        /\ req[p].body.extra = ReservedMembers
        /\ order[p] \in table
        /\ bus # {}
        /\ order[p].totalAmount.coef # 0

\* the entry is no object, or lacks "price" or "quantity"
LacksMember(it) == ~it.obj \/ it.price.k = "absent" \/ it.quantity.k = "absent"

\* customerId and items are non-empty, and items is no list or has an
\* entry that lacks a member
IncompleteItems(ev) ==
    /\ ev.hasBody /\ ev.body.k = "object"
    /\ Truthy(ev.body.customerId) /\ TruthyItems(ev.body.items)
    /\ \/ ev.body.items.k # "list"
       \/ \E n \in DOMAIN ev.body.items.v : LacksMember(ev.body.items.v[n])

\* C28: a create-order request with non-empty customerId and items, one
\* entry of which lacks price or quantity (or whose items is no list of
\* objects), is answered 500 "Internal server error" with no put_item and
\* no put_events made: the table and the bus are as they were.
C28_IncompleteItemIs500 ==
    \A p \in Procs :
        Done(p) /\ IncompleteItems(req[p])
            => /\ resp[p] = ErrorResponse(500, "Internal server error")
               /\ putItemCalls[p] = 0 /\ putEventsCalls[p] = 0
               /\ table = {} /\ bus = {}

\* the second entry has no quantity, the first one is complete
C28_Witness ==
    \E p \in Procs :
        /\ Done(p) /\ IncompleteItems(req[p])
        /\ EnvNames \subseteq environ
        /\ Len(req[p].body.items.v) = 2
        /\ ~LacksMember(req[p].body.items.v[1])
        /\ req[p].body.items.v[2].quantity.k = "absent"
        /\ req[p].body.items.v[2].price.k = "float"
        /\ resp[p].statusCode = 500
        /\ issued = 1

\* C29: both handlers are total: for every event (also one without "body"
\* or "pathParameters") and every fault of the table or the bus, a started
\* create-order invocation reaches its return with a statusCode among 200,
\* 400, 500, and get-order returns a statusCode among 200, 400, 404, 500;
\* no invocation ends without a response.
C29_Total ==
    /\ [](\A p \in Procs : Done(p) => resp[p].statusCode \in {200, 400, 500})
    /\ [](Observed => getResp.statusCode \in {200, 400, 404, 500})
    /\ [](\A ev \in GetEvents, f \in GetFaults :
             GetResponse(table, environ, ev, f).statusCode \in {200, 400, 404, 500})
    /\ \A p \in Procs : (pc[p] \in {"create", "publish"}) ~> Done(p)
    /\ [][\A p \in Procs : pc[p] # pc'[p] /\ pc'[p] = "done"
                              => resp'[p] # NoResponse]_vars

\* an event without "body" and an event without "pathParameters" have
\* both been answered
C29_Witness ==
    /\ Done("p1") /\ ~req["p1"].hasBody /\ resp["p1"].statusCode = 500
    /\ Observed /\ ~getReq.hasPath /\ getResp.statusCode = 400

(***************************************************************************)
(* The two regions: the stacks of app-stacks.py, the orders table each     *)
(* CoreServicesStack declares and the replicas of it, and the two APIs.    *)
(***************************************************************************)
\* env=primary_env / env=secondary_env: the region a stack is deployed to
RegionOf(stack) ==
    IF stack \in {"PrimaryCoreStack", "PrimaryApiStack"} THEN "ap-southeast-2"
    ELSE "us-west-2"

\* replication_regions of the orders table a core stack declares: the
\* regions of the list that are not the stack's own
replication_regions(core) == { r \in Regions : r # RegionOf(core) }

\* the regions holding a replica of the table a core stack declares
ReplicaRegions(core) == {RegionOf(core)} \cup replication_regions(core)

\* orders_table_name=<core>.orders_table.table_name: the table an API stack
\* hands to its functions as ORDERS_TABLE, named here by the stack declaring it
orders_table_name(api) ==
    IF api = "PrimaryApiStack" THEN "PrimaryCoreStack" ELSE "SecondaryCoreStack"

\* boto3.resource('dynamodb').Table(ORDERS_TABLE) inside a function of an API
\* stack: the replica, in the function's region, of the table it was given
LocalReplica(api) == replicas[orders_table_name(api)][RegionOf(api)]

\* the order a valid request creates
RegionalBody ==
    Body("object", "c1", [k |-> "list", v |-> << Item(FloatLit(2999, -2), IntLit(1)) >>])

\* create_order.handler behind the API of one region, answering 200
region_create(api) ==
    /\ regionIssued < MaxInvocations
    /\ regionIssued' = regionIssued + 1
    /\ replicas' =
         [replicas EXCEPT ![orders_table_name(api)][RegionOf(api)] =
            PutItem(@, create_item(RegionalBody, regionIssued + 1, 0, Ttl(0)))]
    /\ created' = created \cup {[api |-> api, orderId |-> regionIssued + 1]}
    /\ UNCHANGED << regionSeen, pipelineVars, apiVars, siemVars >>

\* the global table carrying the items of one replica to another replica of
\* the same table
replicate(core, from, to) ==
    /\ from \in ReplicaRegions(core) /\ to \in ReplicaRegions(core) /\ from # to
    /\ ~(replicas[core][from] \subseteq replicas[core][to])
    /\ replicas' =
         [replicas EXCEPT ![core][to] = @ \cup replicas[core][from]]
    /\ UNCHANGED << created, regionIssued, regionSeen, pipelineVars, apiVars, siemVars >>

\* the answer of get_order.handler behind the API of one region
RegionalGet(api, id) == GetResponse(LocalReplica(api), EnvNames, GetEvent(id), "none")

region_get(api, id) ==
    /\ regionSeen' =
         [api |-> api, orderId |-> id, statusCode |-> RegionalGet(api, id).statusCode]
    /\ UNCHANGED << replicas, created, regionIssued, pipelineVars, apiVars, siemVars >>

InitRegions == Init /\ environ = EnvNames

NextRegions ==
    \/ \E api \in ApiStacks : region_create(api)
    \/ \E core \in CoreStacks : \E from \in Regions : \E to \in Regions :
         replicate(core, from, to)
    \/ \E api \in ApiStacks : \E id \in OrderIds : region_get(api, id)

\* replication is the managed service's: it is not withheld for ever
SpecRegions ==
    /\ InitRegions
    /\ [][NextRegions]_vars
    /\ \A core \in CoreStacks : \A from \in Regions : \A to \in Regions :
         WF_vars(replicate(core, from, to))

OtherApi(api) ==
    IF api = "PrimaryApiStack" THEN "SecondaryApiStack" ELSE "PrimaryApiStack"

\* C25: an order created with status 200 through the API of one region is
\* eventually answered with status 200 by the get-order of the API of the
\* other region.
C25_CrossRegionVisible ==
    \A api \in ApiStacks : \A id \in OrderIds :
        ([api |-> api, orderId |-> id] \in created)
            ~> (RegionalGet(OtherApi(api), id).statusCode = 200)

(***************************************************************************)
(* The deployment pipeline of pipeline_stack.py: four stages, the actions  *)
(* of each with their run_order, and the executions running through them.  *)
(***************************************************************************)
\* pipeline.add_stage, in the order of the calls
StageNames == << "Source", "Build", "Deploy_Primary", "Deploy_Secondary" >>

\* the action_name of the actions of each stage
StageActions(s) ==
    CASE s = "Source" -> {"GitHub"}
      [] s = "Build" -> {"Test", "CDK_Synth"}
      [] s = "Deploy_Primary" ->
           {"Deploy_Primary_Network", "Deploy_Primary_Core", "Deploy_Primary_Api"}
      [] s = "Deploy_Secondary" ->
           {"Deploy_Secondary_Network", "Deploy_Secondary_Core", "Deploy_Secondary_Api"}

DeployActions == StageActions("Deploy_Primary") \cup StageActions("Deploy_Secondary")

\* the Build stage with the synthesis given the run_order of the tests
RunOrderSynthWithTest(a) ==
    IF a \in {"Deploy_Primary_Core", "Deploy_Secondary_Core"} THEN 2
    ELSE IF a \in {"Deploy_Primary_Api", "Deploy_Secondary_Api"} THEN 3
    ELSE 1

\* run_order of an action (1 where none is given)
RunOrder(a) ==
    IF a \in {"CDK_Synth", "Deploy_Primary_Core", "Deploy_Secondary_Core"} THEN 2
    ELSE IF a \in {"Deploy_Primary_Api", "Deploy_Secondary_Api"} THEN 3
    ELSE 1

\* stack_name of a CloudFormationCreateUpdateStackAction
StackOf(a) ==
    CASE a = "Deploy_Primary_Network" -> "PrimaryNetworkStack"
      [] a = "Deploy_Primary_Core" -> "PrimaryCoreStack"
      [] a = "Deploy_Primary_Api" -> "PrimaryApiStack"
      [] a = "Deploy_Secondary_Network" -> "SecondaryNetworkStack"
      [] a = "Deploy_Secondary_Core" -> "SecondaryCoreStack"
      [] a = "Deploy_Secondary_Api" -> "SecondaryApiStack"

\* add_dependency among the stacks the pipeline deploys: << stack, needed >>
Dependencies ==
    { << "PrimaryCoreStack", "PrimaryNetworkStack" >>,
      << "PrimaryApiStack", "PrimaryCoreStack" >>,
      << "SecondaryCoreStack", "SecondaryNetworkStack" >>,
      << "SecondaryApiStack", "SecondaryCoreStack" >> }

\* an execution past the last stage
Completed == Len(StageNames) + 1

\* the actions of an execution that were started
Started(e) == running[e] \cup succeeded[e] \cup failed[e]

\* an execution holds the stage it is in until it leaves it or has failed
Holds(e, n) == stageOf[e] = n /\ (failed[e] = {} \/ running[e] # {})

StageFree(e, n) == n = Completed \/ \A e2 \in Executions \ {e} : ~Holds(e2, n)

\* a push to the branch (or an update of the pipeline) starts an execution
start_execution(e) ==
    /\ stageOf[e] = 0
    /\ \A e2 \in Executions : e2 < e => stageOf[e2] # 0
    /\ StageFree(e, 1)
    /\ stageOf' = [stageOf EXCEPT ![e] = 1]
    /\ UNCHANGED << running, succeeded, failed, regionVars, apiVars, siemVars >>

\* an action of the execution's stage starts once every action of the stage
\* with a lower run_order has succeeded; actions of one run_order run in
\* parallel; nothing starts in a failed execution
start_action(e, a) ==
    /\ stageOf[e] \in 1 .. Len(StageNames)
    /\ a \in StageActions(StageNames[stageOf[e]])
    /\ a \notin Started(e)
    /\ failed[e] = {}
    /\ \A b \in StageActions(StageNames[stageOf[e]]) :
         RunOrder(b) < RunOrder(a) => b \in succeeded[e]
    /\ running' = [running EXCEPT ![e] = @ \cup {a}]
    /\ UNCHANGED << stageOf, succeeded, failed, regionVars, apiVars, siemVars >>

action_succeeds(e, a) ==
    /\ a \in running[e]
    /\ running' = [running EXCEPT ![e] = @ \ {a}]
    /\ succeeded' = [succeeded EXCEPT ![e] = @ \cup {a}]
    /\ UNCHANGED << stageOf, failed, regionVars, apiVars, siemVars >>

action_fails(e, a) ==
    /\ a \in running[e]
    /\ running' = [running EXCEPT ![e] = @ \ {a}]
    /\ failed' = [failed EXCEPT ![e] = @ \cup {a}]
    /\ UNCHANGED << stageOf, succeeded, regionVars, apiVars, siemVars >>

\* the execution enters the next stage when every action of its stage has
\* succeeded and the next stage is free
next_stage(e) ==
    /\ stageOf[e] \in 1 .. Len(StageNames)
    /\ StageActions(StageNames[stageOf[e]]) \subseteq succeeded[e]
    /\ StageFree(e, stageOf[e] + 1)
    /\ stageOf' = [stageOf EXCEPT ![e] = @ + 1]
    /\ UNCHANGED << running, succeeded, failed, regionVars, apiVars, siemVars >>

PipelineActions == UNION { StageActions(StageNames[n]) : n \in 1 .. Len(StageNames) }

NextPipeline ==
    \/ \E e \in Executions : start_execution(e)
    \/ \E e \in Executions : \E a \in PipelineActions : start_action(e, a)
    \/ \E e \in Executions : \E a \in PipelineActions : action_succeeds(e, a)
    \/ \E e \in Executions : \E a \in PipelineActions : action_fails(e, a)
    \/ \E e \in Executions : next_stage(e)

SpecPipeline == InitRegions /\ [][NextPipeline]_vars

\* the order the actions are said to run in
ClaimedOrder ==
    << "Test", "CDK_Synth",
       "Deploy_Primary_Network", "Deploy_Primary_Core", "Deploy_Primary_Api",
       "Deploy_Secondary_Network", "Deploy_Secondary_Core", "Deploy_Secondary_Api" >>

\* the action deploying a stack
DeployerOf(stack) == CHOOSE a \in DeployActions : StackOf(a) = stack

\* C30: in every execution of the pipeline an action of the order Test,
\* CDK_Synth, Primary Network, Primary Core, Primary Api, Secondary Network,
\* Secondary Core, Secondary Api has started only if every earlier one has
\* succeeded; no deployment has started in an execution whose tests failed
\* or have not succeeded; and a stack's deployment has started only if the
\* deployment of every stack it depends on has succeeded.
C30_FixedOrder ==
    \A e \in Executions :
        /\ \A j \in 1 .. Len(ClaimedOrder) : \A i \in 1 .. (j - 1) :
             ClaimedOrder[j] \in Started(e) => ClaimedOrder[i] \in succeeded[e]
        /\ \A a \in DeployActions :
             a \in Started(e) => "Test" \in succeeded[e] /\ "Test" \notin failed[e]
        /\ \A a \in DeployActions : \A d \in Dependencies :
             (a \in Started(e) /\ d[1] = StackOf(a)) => DeployerOf(d[2]) \in succeeded[e]

\* one execution has deployed every stack and another has stopped at its
\* failed tests
C30_Witness ==
    \E e1 \in Executions : \E e2 \in Executions :
        /\ stageOf[e1] = Completed /\ DeployActions \subseteq succeeded[e1]
        /\ "Test" \in failed[e2] /\ Started(e2) = {"GitHub", "Test"}

====
